---- MODULE Spec2Model ----
(***************************************************************************)
(* A model of cursive_calendar_view's CalendarView (src/src/lib.rs,        *)
(* src/src/month.rs, src/src/week_day.rs): the widget's fields, its        *)
(* setters, and its event handler with the date arithmetic it relies on.   *)
(*                                                                         *)
(* A date is a triple <<year, month0, day0>> (chrono's year(), month0(),   *)
(* day0()); an Option<Date> is <<>> for None and <<d>> for Some(d).        *)
(***************************************************************************)
EXTENDS Integers, Sequences, FiniteSets, TLC

VARIABLES
    enabled,            \* CalendarView.enabled
    show_iso_weeks,     \* CalendarView.show_iso_weeks
    week_start,         \* CalendarView.week_start, as its i32 (Monday = 0)
    highest_view_mode,  \* CalendarView.highest_view_mode
    lowest_view_mode,   \* CalendarView.lowest_view_mode
    view_mode,          \* CalendarView.view_mode
    view_date,          \* CalendarView.view_date   (the cursor date)
    earliest_date,      \* CalendarView.earliest_date : Option<Date>
    latest_date,        \* CalendarView.latest_date   : Option<Date>
    date,               \* CalendarView.date        (the selected date)
    on_submit,          \* CalendarView.on_submit.is_some()
    on_select,          \* CalendarView.on_select.is_some()
    result,             \* what the last call returned to the host
    last,               \* the last call, and the fields it found
    steps               \* number of calls made so far

vars == <<enabled, show_iso_weeks, week_start, highest_view_mode,
          lowest_view_mode, view_mode, view_date, earliest_date, latest_date,
          date, on_submit, on_select, result, last, steps>>

-----------------------------------------------------------------------------
(* Bounds of the model *)

\* number of calls (setters, events) made on one widget
MaxSteps == 3

\* dates the widget is constructed with
InitDates == { <<2020, 0, 30>>, <<2024, 11, 1>> }

\* dates handed to set_earliest_date / set_latest_date
RangeDates == { <<2020, 0, 30>>, <<2020, 1, 9>>, <<2030, 5, 14>> }

\* dates handed to set_selected_date / set_view_date
InputDates == { <<2019, 11, 30>>, <<2020, 1, 28>>, <<2031, 0, 0>> }

\* week starts handed to set_week_start (Monday, Wednesday, Sunday)
WeekStarts == { 0, 2, 6 }

\* positions <<x, y>> (relative to the widget) of the mouse presses: the
\* title row, a gap between cells, the right edge, and cells of each grid,
\* among them the cells the cursor starts in
PressPositions ==
    { <<3, 0>>, <<0, 2>>, <<5, 2>>, <<2, 3>>, <<4, 4>>, <<16, 4>>,
      <<12, 6>>, <<15, 6>>, <<18, 7>>, <<22, 6>> }

-----------------------------------------------------------------------------
(* Values *)

ViewModes == { "Month", "Year", "Decade" }

\* #[derive(PartialOrd, Ord)] on ViewMode: declaration order
ModeOrd(m) == CASE m = "Month" -> 0 [] m = "Year" -> 1 [] m = "Decade" -> 2

None == << >>
Some(x) == << x >>
IsSome(o) == Len(o) = 1
Unwrap(o) == o[1]

Year(d) == d[1]
Month0(d) == d[2]
Day0(d) == d[3]

\* chrono's Ord on Date: by calendar day
DateLT(a, b) ==
    \/ Year(a) < Year(b)
    \/ Year(a) = Year(b) /\ Month0(a) < Month0(b)
    \/ Year(a) = Year(b) /\ Month0(a) = Month0(b) /\ Day0(a) < Day0(b)

DateLE(a, b) == a = b \/ DateLT(a, b)

\* Rust's % on i32: the remainder takes the sign of the dividend
RustRem(a, n) == IF a >= 0 THEN a % n ELSE -((-a) % n)

-----------------------------------------------------------------------------
(* month.rs *)

\* Month::number_of_days, the month given by its index 0..11
number_of_days_no_400(month, year) ==
    IF month = 1
    THEN IF RustRem(year, 4) = 0 /\ RustRem(year, 100) # 0
         THEN 29
         ELSE 28
    ELSE IF month \in {0, 2, 4, 6, 7, 9, 11} THEN 31 ELSE 30

number_of_days(month, year) ==
    IF month = 1
    THEN IF (RustRem(year, 4) = 0 /\ RustRem(year, 100) # 0) \/ RustRem(year, 400) = 0
         THEN 29
         ELSE 28
    ELSE IF month \in {0, 2, 4, 6, 7, 9, 11} THEN 31 ELSE 30

\* Month::prev
prev_unwrapped(month) == month - 1

prev(month) == RustRem((month - 1) + 12, 12)

\* Month::prev_number_of_days
prev_number_of_days_same_month(month, year) == number_of_days(month, year)

prev_number_of_days(month, year) ==
    IF month = 0
    THEN number_of_days(prev(month), year - 1)
    ELSE number_of_days(prev(month), year)

-----------------------------------------------------------------------------
(* lib.rs: helpers *)

\* the two loops of date_from_day_and_offsets that bring the month into
\* 0..11, carrying into the year; the result is <<year, month>>
RECURSIVE normalise_month_no_borrow(_, _)
normalise_month_no_borrow(year, month) ==
    IF month < 0 THEN normalise_month_no_borrow(year, month + 12)
    ELSE IF month >= 12 THEN normalise_month_no_borrow(year + 1, month - 12)
    ELSE <<year, month>>

RECURSIVE normalise_month(_, _)
normalise_month(year, month) ==
    IF month < 0 THEN normalise_month(year - 1, month + 12)
    ELSE IF month >= 12 THEN normalise_month(year + 1, month - 12)
    ELSE <<year, month>>

\* cmp::min
Min(a, b) == IF a <= b THEN a ELSE b

\* date_from_day_and_offsets, the day of `d` taken as it is
RECURSIVE date_from_unclamped_day(_, _, _, _, _)
date_from_unclamped_day(d, set_day, day_offset, month_offset, year_offset) ==
    LET ym     == normalise_month(Year(d) + year_offset, Month0(d) + month_offset)
        year   == ym[1]
        month  == ym[2]
        anchor == <<year, month, 0>>
        number == number_of_days(month, year)
        day0   == IF IsSome(set_day) THEN Unwrap(set_day) ELSE Day0(d)
        day    == day0 + day_offset
    IN  IF day < 0
        THEN date_from_unclamped_day(
                 anchor, Some(day + prev_number_of_days(month, year)), 0, -1, 0)
        ELSE IF day >= number
        THEN date_from_unclamped_day(anchor, Some(day - number), 0, 1, 0)
        ELSE <<year, month, day>>

\* date_from_day_and_offsets, the day of `d` cut to the month only when no
\* day offset is given
RECURSIVE date_from_clamping_unmoved_day(_, _, _, _, _)
date_from_clamping_unmoved_day(d, set_day, day_offset, month_offset, year_offset) ==
    LET ym     == normalise_month(Year(d) + year_offset, Month0(d) + month_offset)
        year   == ym[1]
        month  == ym[2]
        anchor == <<year, month, 0>>
        number == number_of_days(month, year)
        day0   == IF IsSome(set_day)
                  THEN Unwrap(set_day)
                  ELSE IF day_offset = 0
                  THEN Min(number - 1, Day0(d))
                  ELSE Day0(d)
        day    == day0 + day_offset
    IN  IF day < 0
        THEN date_from_clamping_unmoved_day(
                 anchor, Some(day + prev_number_of_days(month, year)), 0, -1, 0)
        ELSE IF day >= number
        THEN date_from_clamping_unmoved_day(anchor, Some(day - number), 0, 1, 0)
        ELSE <<year, month, day>>

\* date_from_day_and_offsets; the Option it returns is Some for every year
\* chrono represents, and the result is given here without the Option
RECURSIVE date_from_day_and_offsets(_, _, _, _, _)
date_from_day_and_offsets(d, set_day, day_offset, month_offset, year_offset) ==
    LET ym     == normalise_month(Year(d) + year_offset, Month0(d) + month_offset)
        year   == ym[1]
        month  == ym[2]
        anchor == <<year, month, 0>>
        number == number_of_days(month, year)
        day0   == IF IsSome(set_day)
                  THEN Unwrap(set_day)
                  ELSE Min(number - 1, Day0(d))
        day    == day0 + day_offset
    IN  IF day < 0
        THEN date_from_day_and_offsets(
                 anchor, Some(day + prev_number_of_days(month, year)), 0, -1, 0)
        ELSE IF day >= number
        THEN date_from_day_and_offsets(anchor, Some(day - number), 0, 1, 0)
        ELSE <<year, month, day>>

\* date_from_day_and_offsets: the calls it makes, the first one and every
\* recursive one in order, each as <<year, month, day, number>>: the month
\* the call arrives at, the day index it computes there, and the number of
\* days of that month
RECURSIVE date_from_calls(_, _, _, _, _)
date_from_calls(d, set_day, day_offset, month_offset, year_offset) ==
    LET ym     == normalise_month(Year(d) + year_offset, Month0(d) + month_offset)
        year   == ym[1]
        month  == ym[2]
        anchor == <<year, month, 0>>
        number == number_of_days(month, year)
        day0   == IF IsSome(set_day)
                  THEN Unwrap(set_day)
                  ELSE Min(number - 1, Day0(d))
        day    == day0 + day_offset
        call   == << <<year, month, day, number>> >>
    IN  IF day < 0
        THEN call \o date_from_calls(
                 anchor, Some(day + prev_number_of_days(month, year)), 0, -1, 0)
        ELSE IF day >= number
        THEN call \o date_from_calls(anchor, Some(day - number), 0, 1, 0)
        ELSE call

\* chrono's Date::weekday() as i32 (Monday = 0), from the number of days
\* since 1970-01-01, a Thursday
weekday(d) ==
    LET m    == Month0(d) + 1
        y    == IF m <= 2 THEN Year(d) - 1 ELSE Year(d)
        era  == y \div 400
        yoe  == y - era * 400
        mp   == IF m > 2 THEN m - 3 ELSE m + 9
        doy  == (153 * mp + 2) \div 5 + Day0(d)
        doe  == yoe * 365 + yoe \div 4 - yoe \div 100 + doy
        days == era * 146097 + doe - 719468
    IN  (days + 3) % 7

\* the clamping of set_selected_date and set_view_date: earliest first,
\* then latest
ClampToEarliestOnly(d) ==
    IF IsSome(earliest_date) /\ DateLT(d, Unwrap(earliest_date))
    THEN Unwrap(earliest_date) ELSE d

ClampToRange(d) ==
    LET a == IF IsSome(earliest_date) /\ DateLT(d, Unwrap(earliest_date))
             THEN Unwrap(earliest_date) ELSE d
    IN  IF IsSome(latest_date) /\ DateLT(Unwrap(latest_date), a)
        THEN Unwrap(latest_date) ELSE a

-----------------------------------------------------------------------------
(* lib.rs: the widget *)

Unit == [kind |-> "Unit", cb |-> "none", date |-> None]
Ignored == [kind |-> "Ignored", cb |-> "none", date |-> None]
Consumed(cb, d) == [kind |-> "Consumed", cb |-> cb, date |-> d]
CannotFocus == [kind |-> "CannotFocus", cb |-> "none", date |-> None]

\* the call being made and the fields it finds
Call(op, arg) ==
    [op |-> op, arg |-> arg, view_mode |-> view_mode, view_date |-> view_date,
     date |-> date, lowest_view_mode |-> lowest_view_mode,
     highest_view_mode |-> highest_view_mode]

\* one more call is made
Called(op, arg) ==
    /\ steps < MaxSteps
    /\ steps' = steps + 1
    /\ last' = Call(op, arg)

\* CalendarView::new, starting in the year grid
Init_in_year_grid ==
    /\ enabled = TRUE
    /\ highest_view_mode = "Decade"
    /\ lowest_view_mode = "Month"
    /\ show_iso_weeks = FALSE
    /\ week_start = 0
    /\ date \in InitDates
    /\ earliest_date = None
    /\ latest_date = None
    /\ view_mode = "Year"
    /\ view_date = date
    /\ on_submit = FALSE
    /\ on_select = FALSE
    /\ result = Unit
    /\ last = [op |-> "new", arg |-> Some(date), view_mode |-> "Year",
               view_date |-> date, date |-> date, lowest_view_mode |-> "Month",
               highest_view_mode |-> "Decade"]
    /\ steps = 0

\* CalendarView::new
Init ==
    /\ enabled = TRUE
    /\ highest_view_mode = "Decade"
    /\ lowest_view_mode = "Month"
    /\ show_iso_weeks = FALSE
    /\ week_start = 0
    /\ date \in InitDates
    /\ earliest_date = None
    /\ latest_date = None
    /\ view_mode = "Month"
    /\ view_date = date
    /\ on_submit = FALSE
    /\ on_select = FALSE
    /\ result = Unit
    /\ last = [op |-> "new", arg |-> Some(date), view_mode |-> "Month",
               view_date |-> date, date |-> date, lowest_view_mode |-> "Month",
               highest_view_mode |-> "Decade"]
    /\ steps = 0

\* CalendarView::set_enabled (disable and enable are its two cases)
set_enabled(b) ==
    /\ Called("set_enabled", b)
    /\ enabled' = b
    /\ result' = Unit
    /\ UNCHANGED <<show_iso_weeks, week_start, highest_view_mode,
                   lowest_view_mode, view_mode, view_date, earliest_date,
                   latest_date, date, on_submit, on_select>>

\* CalendarView::set_selected_date
set_selected_date(d) ==
    /\ Called("set_selected_date", d)
    /\ date' = ClampToRange(d)
    /\ result' = Unit
    /\ UNCHANGED <<enabled, show_iso_weeks, week_start, highest_view_mode,
                   lowest_view_mode, view_mode, view_date, earliest_date,
                   latest_date, on_submit, on_select>>

\* CalendarView::set_view_date
set_view_date(d) ==
    /\ Called("set_view_date", d)
    /\ view_date' = ClampToRange(d)
    /\ result' = Unit
    /\ UNCHANGED <<enabled, show_iso_weeks, week_start, highest_view_mode,
                   lowest_view_mode, view_mode, earliest_date, latest_date,
                   date, on_submit, on_select>>

\* CalendarView::set_view_mode
set_view_mode(mode) ==
    /\ Called("set_view_mode", mode)
    /\ view_mode' = IF /\ ModeOrd(mode) >= ModeOrd(lowest_view_mode)
                       /\ ModeOrd(mode) <= ModeOrd(highest_view_mode)
                    THEN mode ELSE view_mode
    /\ result' = Unit
    /\ UNCHANGED <<enabled, show_iso_weeks, week_start, highest_view_mode,
                   lowest_view_mode, view_date, earliest_date, latest_date,
                   date, on_submit, on_select>>

\* set_lowest_view_mode, without the check against the highest mode
set_lowest_view_mode_unchecked(mode) ==
    /\ Called("set_lowest_view_mode", mode)
    /\ lowest_view_mode' = mode
    /\ view_mode' = IF ModeOrd(view_mode) < ModeOrd(mode) THEN mode ELSE view_mode
    /\ result' = Unit
    /\ UNCHANGED <<enabled, show_iso_weeks, week_start, highest_view_mode,
                   view_date, earliest_date, latest_date, date, on_submit,
                   on_select>>

\* CalendarView::set_lowest_view_mode
set_lowest_view_mode(mode) ==
    /\ Called("set_lowest_view_mode", mode)
    /\ IF ModeOrd(mode) < ModeOrd(highest_view_mode)
       THEN /\ lowest_view_mode' = mode
            /\ view_mode' = IF ModeOrd(view_mode) < ModeOrd(mode)
                            THEN mode ELSE view_mode
       ELSE UNCHANGED <<lowest_view_mode, view_mode>>
    /\ result' = Unit
    /\ UNCHANGED <<enabled, show_iso_weeks, week_start, highest_view_mode,
                   view_date, earliest_date, latest_date, date, on_submit,
                   on_select>>

\* set_highest_view_mode, without the check against the lowest mode
set_highest_view_mode_unchecked(mode) ==
    /\ Called("set_highest_view_mode", mode)
    /\ highest_view_mode' = mode
    /\ view_mode' = IF ModeOrd(view_mode) > ModeOrd(mode) THEN mode ELSE view_mode
    /\ result' = Unit
    /\ UNCHANGED <<enabled, show_iso_weeks, week_start, lowest_view_mode,
                   view_date, earliest_date, latest_date, date, on_submit,
                   on_select>>

\* CalendarView::set_highest_view_mode
set_highest_view_mode(mode) ==
    /\ Called("set_highest_view_mode", mode)
    /\ IF ModeOrd(mode) > ModeOrd(lowest_view_mode)
       THEN /\ highest_view_mode' = mode
            /\ view_mode' = IF ModeOrd(view_mode) > ModeOrd(mode)
                            THEN mode ELSE view_mode
       ELSE UNCHANGED <<highest_view_mode, view_mode>>
    /\ result' = Unit
    /\ UNCHANGED <<enabled, show_iso_weeks, week_start, lowest_view_mode,
                   view_date, earliest_date, latest_date, date, on_submit,
                   on_select>>

\* CalendarView::set_earliest_date
set_earliest_date(o) ==
    /\ Called("set_earliest_date", o)
    /\ earliest_date' = o
    /\ date' = IF IsSome(o) /\ DateLT(date, Unwrap(o)) THEN Unwrap(o) ELSE date
    /\ result' = Unit
    /\ UNCHANGED <<enabled, show_iso_weeks, week_start, highest_view_mode,
                   lowest_view_mode, view_mode, view_date, latest_date,
                   on_submit, on_select>>

\* CalendarView::set_latest_date
set_latest_date(o) ==
    /\ Called("set_latest_date", o)
    /\ latest_date' = o
    /\ date' = IF IsSome(o) /\ DateLT(Unwrap(o), date) THEN Unwrap(o) ELSE date
    /\ result' = Unit
    /\ UNCHANGED <<enabled, show_iso_weeks, week_start, highest_view_mode,
                   lowest_view_mode, view_mode, view_date, earliest_date,
                   on_submit, on_select>>

\* CalendarView::set_week_start
set_week_start(day) ==
    /\ Called("set_week_start", day)
    /\ week_start' = day
    /\ result' = Unit
    /\ UNCHANGED <<enabled, show_iso_weeks, highest_view_mode,
                   lowest_view_mode, view_mode, view_date, earliest_date,
                   latest_date, date, on_submit, on_select>>

\* CalendarView::set_show_iso_weeks
set_show_iso_weeks(show) ==
    /\ Called("set_show_iso_weeks", show)
    /\ show_iso_weeks' = show
    /\ result' = Unit
    /\ UNCHANGED <<enabled, week_start, highest_view_mode, lowest_view_mode,
                   view_mode, view_date, earliest_date, latest_date, date,
                   on_submit, on_select>>

\* CalendarView::set_on_submit
set_on_submit ==
    /\ Called("set_on_submit", None)
    /\ on_submit' = TRUE
    /\ result' = Unit
    /\ UNCHANGED <<enabled, show_iso_weeks, week_start, highest_view_mode,
                   lowest_view_mode, view_mode, view_date, earliest_date,
                   latest_date, date, on_select>>

\* CalendarView::set_on_select
set_on_select ==
    /\ Called("set_on_select", None)
    /\ on_select' = TRUE
    /\ result' = Unit
    /\ UNCHANGED <<enabled, show_iso_weeks, week_start, highest_view_mode,
                   lowest_view_mode, view_mode, view_date, earliest_date,
                   latest_date, date, on_submit>>

-----------------------------------------------------------------------------
(* lib.rs: the View implementation *)

DirectionKeys == { "Up", "Down", "Left", "Right", "PageUp", "PageDown" }
MouseButtons == { "Left", "Right" }

\* View::required_size: the widget's footprint <<columns, rows>>
required_size == IF show_iso_weeks THEN <<23, 8>> ELSE <<20, 8>>

\* the offsets of a direction key, Up in the day grid going back six days
key_offsets_six_days_up(key, mode) ==
    CASE key = "Up" ->
            (CASE mode = "Month" -> <<-6, 0, 0>>
               [] mode = "Year" -> <<0, -4, 0>>
               [] mode = "Decade" -> <<0, 0, -4>>)
      [] key = "Down" ->
            (CASE mode = "Month" -> <<7, 0, 0>>
               [] mode = "Year" -> <<0, 4, 0>>
               [] mode = "Decade" -> <<0, 0, 4>>)
      [] key = "Right" ->
            (CASE mode = "Month" -> <<1, 0, 0>>
               [] mode = "Year" -> <<0, 1, 0>>
               [] mode = "Decade" -> <<0, 0, 1>>)
      [] key = "Left" ->
            (CASE mode = "Month" -> <<-1, 0, 0>>
               [] mode = "Year" -> <<0, -1, 0>>
               [] mode = "Decade" -> <<0, 0, -1>>)
      [] key = "PageUp" ->
            (CASE mode = "Month" -> <<0, -1, 0>>
               [] mode = "Year" -> <<0, 0, -1>>
               [] mode = "Decade" -> <<0, 0, -10>>)
      [] key = "PageDown" ->
            (CASE mode = "Month" -> <<0, 1, 0>>
               [] mode = "Year" -> <<0, 0, 1>>
               [] mode = "Decade" -> <<0, 0, 10>>)

\* on_event: the (day, month, year) offsets of a direction key in a mode
key_offsets(key, mode) ==
    CASE key = "Up" ->
            (CASE mode = "Month" -> <<-7, 0, 0>>
               [] mode = "Year" -> <<0, -4, 0>>
               [] mode = "Decade" -> <<0, 0, -4>>)
      [] key = "Down" ->
            (CASE mode = "Month" -> <<7, 0, 0>>
               [] mode = "Year" -> <<0, 4, 0>>
               [] mode = "Decade" -> <<0, 0, 4>>)
      [] key = "Right" ->
            (CASE mode = "Month" -> <<1, 0, 0>>
               [] mode = "Year" -> <<0, 1, 0>>
               [] mode = "Decade" -> <<0, 0, 1>>)
      [] key = "Left" ->
            (CASE mode = "Month" -> <<-1, 0, 0>>
               [] mode = "Year" -> <<0, -1, 0>>
               [] mode = "Decade" -> <<0, 0, -1>>)
      [] key = "PageUp" ->
            (CASE mode = "Month" -> <<0, -1, 0>>
               [] mode = "Year" -> <<0, 0, -1>>
               [] mode = "Decade" -> <<0, 0, -10>>)
      [] key = "PageDown" ->
            (CASE mode = "Month" -> <<0, 1, 0>>
               [] mode = "Year" -> <<0, 0, 1>>
               [] mode = "Decade" -> <<0, 0, 10>>)

\* WeekDay::from(i32): the week day of an index, as its i32 (Monday = 0)
week_day_from(index) == RustRem(index + 7, 7)

\* draw_month: the <<x, y, week day>> of the header of column i
draw_month_header(i) ==
    LET h_offset == IF show_iso_weeks THEN 3 ELSE 0
        w_offset == week_start
    IN  <<h_offset + i * 3, 1, week_day_from(i + w_offset)>>

\* d_offset, with the week taken to start on Monday whatever week_start is
d_offset_from_monday(cursor) ==
    LET month_start    == <<Year(cursor), Month0(cursor), 0>>
        first_week_day == (weekday(month_start) + 7) % 7
    IN  RustRem(first_week_day, 7)

\* draw_month and on_event: the number of cells of the day grid that come
\* before the first day of the month of the cursor date
d_offset(cursor) ==
    LET month_start    == <<Year(cursor), Month0(cursor), 0>>
        first_week_day == (weekday(month_start) + 7) % 7
        w_offset       == week_start
        d_shift        == RustRem((0 - w_offset) + 7, 7)
    IN  RustRem(first_week_day + d_shift, 7)

\* draw_month: the <<x, y>> at which the cell of day i of the month of
\* `cursor` is printed (i < 0: a day of the month before), two columns wide
draw_month_cell(cursor, i) ==
    LET h_offset == IF show_iso_weeks THEN 3 ELSE 0
        index    == i + d_offset(cursor)
    IN  <<h_offset + (index % 7) * 3, 2 + index \div 7>>

\* draw_year: the <<x, y>> at which month i is printed, four columns wide
draw_year_cell(i) ==
    LET h_offset == IF show_iso_weeks THEN 2 ELSE 0
    IN  <<h_offset + (i % 4) * 5, 2 + (i \div 4) * 2>>

\* draw_decade: the <<x, y>> at which year decade + i is printed (i from
\* -1), four columns wide
draw_decade_cell(i) ==
    LET h_offset == IF show_iso_weeks THEN 2 ELSE 0
        index    == i + 1
    IN  <<h_offset + (index % 4) * 5, 2 + (index \div 4) * 2>>

\* draw_month, draw_year, draw_decade: the cell drawn as the cursor's when
\* the cursor date is `cursor` in `mode`, as <<x, y, width>>
cursor_cell(mode, cursor) ==
    CASE mode = "Month" ->
            LET c == draw_month_cell(cursor, Day0(cursor)) IN <<c[1], c[2], 2>>
      [] mode = "Year" ->
            LET c == draw_year_cell(Month0(cursor)) IN <<c[1], c[2], 4>>
      [] mode = "Decade" ->
            LET decade == Year(cursor) - RustRem(Year(cursor), 10)
                c      == draw_decade_cell(Year(cursor) - decade)
            IN  <<c[1], c[2], 4>>

\* draw_month's cell dates, the days of the month before counted from the
\* length of the cursor's month
draw_month_date_same_length(cursor, i) ==
    LET month_days == number_of_days(Month0(cursor), Year(cursor))
    IN  IF i < 0
        THEN date_from_day_and_offsets(cursor, Some(month_days + i), 0, -1, 0)
        ELSE IF i > month_days - 1
        THEN date_from_day_and_offsets(cursor, Some(i - month_days), 0, 1, 0)
        ELSE date_from_day_and_offsets(cursor, Some(i), 0, 0, 0)

\* draw_month: the date shown by the cell of day i of the month of `cursor`
\* (i < 0: a day of the month before; i past the month: a day of the next)
draw_month_date(cursor, i) ==
    LET month_days      == number_of_days(Month0(cursor), Year(cursor))
        prev_month_days == prev_number_of_days(Month0(cursor), Year(cursor))
    IN  IF i < 0
        THEN date_from_day_and_offsets(cursor, Some(prev_month_days + i), 0, -1, 0)
        ELSE IF i > month_days - 1
        THEN date_from_day_and_offsets(cursor, Some(i - month_days), 0, 1, 0)
        ELSE date_from_day_and_offsets(cursor, Some(i), 0, 0, 0)

\* draw_month: the days its loop goes through, 42 cells from the first cell
\* of the week the month starts in
draw_month_days(cursor) == (0 - d_offset(cursor)) .. (41 - d_offset(cursor))

\* draw_year: the months its loop goes through
draw_year_months == 0 .. 11

\* draw_decade: the first year of the decade of `cursor`, and the offsets
\* from it its loop goes through
draw_decade_first(cursor) == Year(cursor) - RustRem(Year(cursor), 10)
draw_decade_years == -1 .. 11

\* draw_month, draw_year, draw_decade: every cell printed in `mode` when
\* the cursor date is `cursor`, as <<x, y, width, what>>, `what` being the
\* day, the month or the offset into the decade the cell stands for
drawn_cells(mode, cursor) ==
    CASE mode = "Month" ->
            LET first == 0 - d_offset(cursor)
                h_offset == IF show_iso_weeks THEN 3 ELSE 0
            IN  { <<h_offset + ((i - first) % 7) * 3, 2 + (i - first) \div 7, 2, i>> :
                      i \in draw_month_days(cursor) }
      [] mode = "Year" ->
            { <<draw_year_cell(i)[1], draw_year_cell(i)[2], 4, i>> :
                  i \in draw_year_months }
      [] mode = "Decade" ->
            { <<draw_decade_cell(i)[1], draw_decade_cell(i)[2], 4, i>> :
                  i \in draw_decade_years }

\* date_available
date_available(d) ==
    /\ ~(IsSome(earliest_date) /\ DateLT(d, Unwrap(earliest_date)))
    /\ ~(IsSome(latest_date) /\ DateLT(Unwrap(latest_date), d))

\* year_available
year_available(year) ==
    /\ ~(IsSome(earliest_date) /\ year < Year(Unwrap(earliest_date)))
    /\ ~(IsSome(latest_date) /\ year > Year(Unwrap(latest_date)))

\* month_available, with the month of the earliest date itself unavailable
month_available_after_earliest(month, year) ==
    /\ year_available(year)
    /\ ~(/\ IsSome(earliest_date)
         /\ year = Year(Unwrap(earliest_date))
         /\ month <= Month0(Unwrap(earliest_date)))
    /\ ~(/\ IsSome(latest_date)
         /\ year = Year(Unwrap(latest_date))
         /\ month > Month0(Unwrap(latest_date)))

\* month_available
month_available(month, year) ==
    /\ year_available(year)
    /\ ~(/\ IsSome(earliest_date)
         /\ year = Year(Unwrap(earliest_date))
         /\ month < Month0(Unwrap(earliest_date)))
    /\ ~(/\ IsSome(latest_date)
         /\ year = Year(Unwrap(latest_date))
         /\ month > Month0(Unwrap(latest_date)))

\* draw_month: the ColorStyle the cell of day i is printed in, `focused`
\* being printer.focused
draw_month_color(i, focused) ==
    LET active_day      == Day0(date)
        view_day        == Day0(view_date)
        d_month         == Month0(date) - Month0(view_date)
        d_year          == Year(date) - Year(view_date)
        month_days      == number_of_days(Month0(view_date), Year(view_date))
        prev_month_days == prev_number_of_days(Month0(view_date), Year(view_date))
        exact_date      == draw_month_date(view_date, i)
    IN  IF ~date_available(exact_date) THEN "tertiary"
        ELSE IF i < 0
        THEN IF active_day = prev_month_days + i /\ d_month = -1 /\ d_year = 0
             THEN IF enabled /\ focused THEN "highlight_inactive" ELSE "secondary"
             ELSE "secondary"
        ELSE IF i > month_days - 1
        THEN IF active_day = i - month_days /\ d_month = 1 /\ d_year = 0
             THEN IF enabled /\ focused THEN "highlight_inactive" ELSE "secondary"
             ELSE "secondary"
        ELSE IF view_day = i
        THEN IF enabled /\ focused THEN "highlight" ELSE "highlight_inactive"
        ELSE IF active_day = i /\ d_month = 0 /\ d_year = 0
        THEN IF enabled THEN "highlight_inactive" ELSE "primary"
        ELSE "primary"

\* what a press leads to: "Ignored", "Submit", or a move by offsets
HitIgnored == [kind |-> "Ignored", offsets |-> <<0, 0, 0>>]
HitSubmit == [kind |-> "Submit", offsets |-> <<0, 0, 0>>]
HitOffsets(o) == [kind |-> "Offsets", offsets |-> o]

\* on_event, Event::Mouse in ViewMode::Decade
mouse_decade_off_by_one(x, y, btn) ==
    LET h_offset == IF show_iso_weeks THEN 2 ELSE 0
    IN  IF y < 2 \/ y % 2 # 0 \/ x < h_offset \/ (x - h_offset) % 5 = 4
        THEN HitIgnored
        ELSE LET cell_index    == (x - h_offset) \div 5 + (y - 2) * 2
                 current_index == RustRem(Year(view_date), 10)
                 offset        == cell_index - current_index
             IN  IF offset = 0 /\ btn = "Left"
                 THEN HitSubmit ELSE HitOffsets(<<0, 0, offset>>)

mouse_decade(x, y, btn) ==
    LET h_offset == IF show_iso_weeks THEN 2 ELSE 0
    IN  IF y < 2 \/ y % 2 # 0 \/ x < h_offset \/ (x - h_offset) % 5 = 4
        THEN HitIgnored
        ELSE LET cell_index    == (x - h_offset) \div 5 + (y - 2) * 2
                 current_index == 1 + RustRem(Year(view_date), 10)
                 offset        == cell_index - current_index
             IN  IF offset = 0 /\ btn = "Left"
                 THEN HitSubmit ELSE HitOffsets(<<0, 0, offset>>)

\* on_event, Event::Mouse in ViewMode::Year
mouse_year(x, y, btn) ==
    LET h_offset == IF show_iso_weeks THEN 2 ELSE 0
    IN  IF y < 2 \/ y % 2 # 0 \/ x < h_offset \/ (x - h_offset) % 5 = 4
        THEN HitIgnored
        ELSE LET month  == 4 * ((y - 2) \div 2) + (x - h_offset) \div 5
                 offset == month - Month0(view_date)
             IN  IF offset = 0 /\ btn = "Left"
                 THEN HitSubmit ELSE HitOffsets(<<0, offset, 0>>)

\* on_event, Event::Mouse in ViewMode::Month
mouse_month_unshifted(x, y, btn) ==
    LET h_offset == IF show_iso_weeks THEN 3 ELSE 0
    IN  IF y < 2 \/ x < h_offset \/ (x - h_offset) % 3 = 2
        THEN HitIgnored
        ELSE LET cell_index    == (x - h_offset) \div 3 + 7 * (y - 2)
                 current_index == Day0(view_date)
                 offset        == cell_index - current_index
             IN  IF offset = 0 /\ btn = "Left"
                 THEN HitSubmit ELSE HitOffsets(<<offset, 0, 0>>)

mouse_month(x, y, btn) ==
    LET h_offset == IF show_iso_weeks THEN 3 ELSE 0
    IN  IF y < 2 \/ x < h_offset \/ (x - h_offset) % 3 = 2
        THEN HitIgnored
        ELSE LET cell_index    == (x - h_offset) \div 3 + 7 * (y - 2)
                 current_index == Day0(view_date) + d_offset(view_date)
                 offset        == cell_index - current_index
             IN  IF offset = 0 /\ btn = "Left"
                 THEN HitSubmit ELSE HitOffsets(<<offset, 0, 0>>)

\* on_event, Event::Mouse: where a press of btn at <<x, y>> (relative to
\* the widget) leads in the current mode
mouse_press(x, y, btn) ==
    CASE view_mode = "Decade" -> mouse_decade(x, y, btn)
      [] view_mode = "Year" -> mouse_year(x, y, btn)
      [] view_mode = "Month" -> mouse_month(x, y, btn)

\* submit, with Decade leading straight to Month
submit_skipping_year ==
    IF view_mode = lowest_view_mode
    THEN /\ date' = view_date
         /\ result' = IF on_submit
                      THEN Consumed("submit", Some(view_date))
                      ELSE Consumed("none", None)
         /\ UNCHANGED <<view_mode, view_date>>
    ELSE /\ view_mode' = "Month"
         /\ result' = Consumed("none", None)
         /\ UNCHANGED <<date, view_date>>

\* submit, with the callback given the date selected before
submit_stale_date ==
    IF view_mode = lowest_view_mode
    THEN /\ date' = view_date
         /\ result' = IF on_submit
                      THEN Consumed("submit", Some(date))
                      ELSE Consumed("none", None)
         /\ UNCHANGED <<view_mode, view_date>>
    ELSE /\ view_mode' = (CASE view_mode \in {"Month", "Year"} -> "Month"
                            [] view_mode = "Decade" -> "Year")
         /\ result' = Consumed("none", None)
         /\ UNCHANGED <<date, view_date>>

\* submit, committing in the day grid only, whatever the lowest view mode
submit_at_month_only ==
    IF view_mode = "Month"
    THEN /\ date' = view_date
         /\ result' = IF on_submit
                      THEN Consumed("submit", Some(view_date))
                      ELSE Consumed("none", None)
         /\ UNCHANGED <<view_mode, view_date>>
    ELSE /\ view_mode' = (CASE view_mode = "Year" -> "Month"
                            [] view_mode = "Decade" -> "Year")
         /\ result' = Consumed("none", None)
         /\ UNCHANGED <<date, view_date>>

\* CalendarView::submit
submit ==
    IF view_mode = lowest_view_mode
    THEN /\ date' = view_date
         /\ result' = IF on_submit
                      THEN Consumed("submit", Some(view_date))
                      ELSE Consumed("none", None)
         /\ UNCHANGED <<view_mode, view_date>>
    ELSE /\ view_mode' = (CASE view_mode \in {"Month", "Year"} -> "Month"
                            [] view_mode = "Decade" -> "Year")
         /\ result' = Consumed("none", None)
         /\ UNCHANGED <<date, view_date>>

\* move, with the new cursor date stored as computed, unclamped
move_unclamped(offsets) ==
    /\ view_date' = date_from_day_and_offsets(
                        view_date, None, offsets[1], offsets[2], offsets[3])
    /\ result' = IF view_date' # view_date
                 THEN IF on_select
                      THEN Consumed("select", Some(view_date'))
                      ELSE Consumed("none", None)
                 ELSE Consumed("none", None)
    /\ UNCHANGED <<view_mode, date>>

\* move, with the host told of every move, changed cursor or not
move_always_selecting(offsets) ==
    /\ view_date' = ClampToRange(date_from_day_and_offsets(
                        view_date, None, offsets[1], offsets[2], offsets[3]))
    /\ result' = IF on_select
                 THEN Consumed("select", Some(view_date'))
                 ELSE Consumed("none", None)
    /\ UNCHANGED <<view_mode, date>>

\* on_event, from `if let Some((day, month, year)) = offsets` to its end:
\* the cursor moves by the offsets and the host is told if it changed
move(offsets) ==
    /\ view_date' = ClampToRange(date_from_day_and_offsets(
                        view_date, None, offsets[1], offsets[2], offsets[3]))
    /\ result' = IF view_date' # view_date
                 THEN IF on_select
                      THEN Consumed("select", Some(view_date'))
                      ELSE Consumed("none", None)
                 ELSE Consumed("none", None)
    /\ UNCHANGED <<view_mode, date>>

\* drill_out, without the check against the highest mode
drill_out_unbounded ==
    /\ view_mode' = (CASE view_mode = "Month" -> "Year"
                       [] view_mode \in {"Year", "Decade"} -> "Decade")
    /\ result' = Consumed("none", None)
    /\ UNCHANGED <<view_date, date>>

\* drill_out, held back at the lowest mode as well
drill_out_held_at_lowest ==
    /\ view_mode' =
           IF /\ ModeOrd(view_mode) < ModeOrd(highest_view_mode)
              /\ view_mode # lowest_view_mode
           THEN (CASE view_mode = "Month" -> "Year"
                   [] view_mode \in {"Year", "Decade"} -> "Decade")
           ELSE view_mode
    /\ result' = Consumed("none", None)
    /\ UNCHANGED <<view_date, date>>

\* on_event, Key::Backspace: one step coarser below the highest mode
drill_out ==
    /\ view_mode' =
           IF ModeOrd(view_mode) < ModeOrd(highest_view_mode)
           THEN (CASE view_mode = "Month" -> "Year"
                   [] view_mode \in {"Year", "Decade"} -> "Decade")
           ELSE view_mode
    /\ result' = Consumed("none", None)
    /\ UNCHANGED <<view_date, date>>

\* on_event returning EventResult::Ignored
ignore ==
    /\ result' = Ignored
    /\ UNCHANGED <<view_mode, view_date, date>>

\* what no event changes
EventFrame ==
    UNCHANGED <<enabled, show_iso_weeks, week_start, highest_view_mode,
                lowest_view_mode, earliest_date, latest_date, on_submit,
                on_select>>

\* the events: Event::Key(key); Event::Mouse with MouseEvent::Press(btn) at
\* position - offset = <<x, y>>; and any other event (another key, a mouse
\* event that is no press, a press whose position.checked_sub(offset) is
\* None)
KeyEvent(key) == [kind |-> "Key", key |-> key, x |-> 0, y |-> 0, btn |-> "none"]
MousePress(x, y, btn) == [kind |-> "Mouse", key |-> "none", x |-> x, y |-> y, btn |-> btn]
OtherEvent == [kind |-> "Other", key |-> "none", x |-> 0, y |-> 0, btn |-> "none"]

\* the name and the argument an event is remembered by
EventName(event) == IF event.kind = "Key" THEN event.key ELSE event.kind
EventArg(event) ==
    IF event.kind = "Mouse" THEN <<event.x, event.y, event.btn>> ELSE None

\* on_event, the match on the event of an enabled widget
handle(event) ==
    IF event.kind = "Key" /\ event.key \in DirectionKeys
         THEN move(key_offsets(event.key, view_mode))
    ELSE IF event.kind = "Key" /\ event.key = "Backspace"
         THEN drill_out
    ELSE IF event.kind = "Key" /\ event.key = "Enter"
         THEN submit
    ELSE IF event.kind = "Mouse"
         THEN LET hit == mouse_press(event.x, event.y, event.btn)
              IN  IF hit.kind = "Ignored" THEN ignore
                  ELSE IF hit.kind = "Submit" THEN submit
                  ELSE move(hit.offsets)
    ELSE ignore

\* on_event, without the check of `enabled`
on_event_unguarded(event) ==
    /\ Called(EventName(event), EventArg(event))
    /\ handle(event)
    /\ EventFrame

\* View::on_event
on_event(event) ==
    /\ Called(EventName(event), EventArg(event))
    /\ IF ~enabled THEN ignore ELSE handle(event)
    /\ EventFrame

\* View::take_focus
take_focus ==
    /\ Called("take_focus", None)
    /\ result' = IF enabled THEN Consumed("none", None) ELSE CannotFocus
    /\ UNCHANGED <<view_mode, view_date, date>>
    /\ EventFrame

-----------------------------------------------------------------------------
(* The widget under its host: any call at any time *)

OptionalRangeDates == { None } \cup { Some(d) : d \in RangeDates }

Next ==
    \/ \E b \in BOOLEAN : set_enabled(b)
    \/ \E d \in InputDates : set_selected_date(d)
    \/ \E d \in InputDates : set_view_date(d)
    \/ \E m \in ViewModes : set_view_mode(m)
    \/ \E m \in ViewModes : set_lowest_view_mode(m)
    \/ \E m \in ViewModes : set_highest_view_mode(m)
    \/ \E o \in OptionalRangeDates :
           /\ IsSome(o) /\ IsSome(latest_date) => DateLE(Unwrap(o), Unwrap(latest_date))
           /\ set_earliest_date(o)
    \/ \E o \in OptionalRangeDates :
           /\ IsSome(o) /\ IsSome(earliest_date) => DateLE(Unwrap(earliest_date), Unwrap(o))
           /\ set_latest_date(o)
    \/ \E w \in WeekStarts : set_week_start(w)
    \/ \E b \in BOOLEAN : set_show_iso_weeks(b)
    \/ set_on_submit
    \/ set_on_select
    \/ take_focus
    \/ \E k \in DirectionKeys : on_event(KeyEvent(k))
    \/ on_event(KeyEvent("Backspace"))
    \/ on_event(KeyEvent("Enter"))
    \/ \E p \in PressPositions, btn \in MouseButtons :
           /\ p[1] < required_size[1]
           /\ p[2] < required_size[2]
           /\ on_event(MousePress(p[1], p[2], btn))
    \/ on_event(OtherEvent)

Spec == Init /\ [][Next]_vars

-----------------------------------------------------------------------------
(* The widget as its builder calls leave it, under one pointer press
   anywhere in its footprint or one direction key *)

\* WeekDay as i32
WeekDays == 0 .. 6

GridDates ==
    { <<2020, 0, 30>>, <<2021, 1, 0>>, <<2019, 11, 30>>, <<2020, 1, 28>> }

GridRanges ==
    { <<None, None>>,
      <<Some(<<2020, 0, 14>>), Some(<<2020, 1, 9>>)>> }

\* CalendarView::new(today) followed by week_start, show_iso_weeks,
\* earliest_date, latest_date and view_mode, today lying within the range
GridInit ==
    /\ enabled = TRUE
    /\ highest_view_mode = "Decade"
    /\ lowest_view_mode = "Month"
    /\ show_iso_weeks \in BOOLEAN
    /\ week_start \in WeekDays
    /\ date \in GridDates
    /\ \E r \in GridRanges :
           /\ earliest_date = r[1]
           /\ latest_date = r[2]
    /\ ClampToRange(date) = date
    /\ view_mode \in ViewModes
    /\ view_date = date
    /\ on_submit = FALSE
    /\ on_select = FALSE
    /\ result = Unit
    /\ last = [op |-> "new", arg |-> Some(date), view_mode |-> view_mode,
               view_date |-> date, date |-> date, lowest_view_mode |-> "Month",
               highest_view_mode |-> "Decade"]
    /\ steps = 0

\* one press at any position of the footprint, or one direction key
GridNext ==
    \/ \E x \in 0 .. (required_size[1] - 1), y \in 0 .. (required_size[2] - 1),
          btn \in MouseButtons :
           /\ steps = 0
           /\ on_event(MousePress(x, y, btn))
    \/ \E k \in DirectionKeys :
           /\ steps = 0
           /\ on_event(KeyEvent(k))

GridSpec == GridInit /\ [][GridNext]_vars

-----------------------------------------------------------------------------
(* date_from_day_and_offsets on its own: a date, and one call with a day,
   a month and a year offset *)

CalcDates ==
    { <<1969, 6, 19>>, <<2020, 0, 30>>, <<2020, 1, 28>>, <<2019, 11, 30>>,
      <<2021, 0, 0>>, <<2021, 2, 30>>, <<2020, 9, 30>>, <<1900, 1, 27>>,
      <<2000, 1, 28>>, <<2100, 2, 0>>, <<0, 0, 0>>, <<-1, 11, 30>>,
      <<-4, 1, 28>>, <<-100, 2, 0>>, <<-400, 1, 28>> }

CalcDayOffsets == { -400, -40, -10, -7, -4, -1, 0, 1, 4, 7, 21, 40, 400 }
CalcMonthOffsets == { -13, -4, -1, 0, 1, 4, 13 }
CalcYearOffsets == { -10, -4, -1, 0, 1, 4, 10 }

\* a widget that holds the date the call starts from
CalcInit ==
    /\ enabled = TRUE
    /\ highest_view_mode = "Decade"
    /\ lowest_view_mode = "Month"
    /\ show_iso_weeks = FALSE
    /\ week_start = 0
    /\ date \in CalcDates
    /\ earliest_date = None
    /\ latest_date = None
    /\ view_mode = "Month"
    /\ view_date = date
    /\ on_submit = FALSE
    /\ on_select = FALSE
    /\ result = Unit
    /\ last = [op |-> "new", arg |-> Some(date), view_mode |-> "Month",
               view_date |-> date, date |-> date, lowest_view_mode |-> "Month",
               highest_view_mode |-> "Decade"]
    /\ steps = 0

\* test_offsets: date_from_day_and_offsets(&date, None, day_offset,
\* month_offset, year_offset), the result taking the place of the date
test_offsets(day_offset, month_offset, year_offset) ==
    /\ steps = 0
    /\ Called("test_offsets", <<day_offset, month_offset, year_offset>>)
    /\ view_date' = date_from_day_and_offsets(
                        view_date, None, day_offset, month_offset, year_offset)
    /\ result' = Unit
    /\ UNCHANGED <<enabled, show_iso_weeks, week_start, highest_view_mode,
                   lowest_view_mode, view_mode, earliest_date, latest_date,
                   date, on_submit, on_select>>

CalcNext ==
    \E day_offset \in CalcDayOffsets, month_offset \in CalcMonthOffsets,
       year_offset \in CalcYearOffsets :
        test_offsets(day_offset, month_offset, year_offset)

CalcSpec == CalcInit /\ [][CalcNext]_vars

-----------------------------------------------------------------------------
(* Confirming on its own: a widget configured through the builder, its cursor
   moved off the selected date, and then only Enter presses *)

\* CalendarView::new(today) followed by view_date, lowest_view_mode,
\* highest_view_mode, view_mode and, possibly, on_submit
ConfirmInit ==
    /\ enabled = TRUE
    /\ highest_view_mode \in ViewModes
    /\ lowest_view_mode \in ViewModes
    /\ ModeOrd(lowest_view_mode) <= ModeOrd(highest_view_mode)
    /\ view_mode \in ViewModes
    /\ ModeOrd(lowest_view_mode) <= ModeOrd(view_mode)
    /\ ModeOrd(view_mode) <= ModeOrd(highest_view_mode)
    /\ show_iso_weeks = FALSE
    /\ week_start = 0
    /\ date \in GridDates
    /\ view_date \in GridDates
    /\ view_date # date
    /\ earliest_date = None
    /\ latest_date = None
    /\ on_submit \in BOOLEAN
    /\ on_select = FALSE
    /\ result = Unit
    /\ last = [op |-> "new", arg |-> Some(date), view_mode |-> view_mode,
               view_date |-> view_date, date |-> date,
               lowest_view_mode |-> lowest_view_mode,
               highest_view_mode |-> highest_view_mode]
    /\ steps = 0

\* one press of Enter
ConfirmNext ==
    on_event(KeyEvent("Enter"))

ConfirmSpec == ConfirmInit /\ [][ConfirmNext]_vars

-----------------------------------------------------------------------------
(* The month and the year grid under a range: a widget given a range through
   the builder, then direction keys *)

BoundedDates == { <<2020, 0, 30>>, <<2020, 0, 0>>, <<2019, 11, 30>>, <<2020, 1, 0>> }

\* <<earliest_date, latest_date>>, earliest <= latest where both are given
BoundedRanges ==
    { <<None, None>>,
      <<Some(<<2020, 0, 14>>), Some(<<2020, 1, 9>>)>>,
      <<Some(<<2019, 10, 19>>), Some(<<2021, 2, 4>>)>>,
      <<Some(<<2020, 0, 30>>), Some(<<2020, 0, 30>>)>>,
      <<Some(<<2020, 0, 30>>), None>>,
      <<None, Some(<<2020, 1, 0>>)>>,
      <<Some(<<2019, 11, 30>>), Some(<<2020, 0, 0>>)>>,
      <<Some(<<2018, 5, 9>>), Some(<<2031, 4, 2>>)>> }

\* CalendarView::new(today) followed by earliest_date, latest_date and
\* view_mode, today lying within the range
BoundedInit ==
    /\ enabled = TRUE
    /\ highest_view_mode = "Decade"
    /\ lowest_view_mode = "Month"
    /\ show_iso_weeks = FALSE
    /\ week_start = 0
    /\ date \in BoundedDates
    /\ \E r \in BoundedRanges :
           /\ earliest_date = r[1]
           /\ latest_date = r[2]
    /\ ClampToRange(date) = date
    /\ view_mode \in { "Year", "Decade" }
    /\ view_date = date
    /\ on_submit = FALSE
    /\ on_select = FALSE
    /\ result = Unit
    /\ last = [op |-> "new", arg |-> Some(date), view_mode |-> view_mode,
               view_date |-> date, date |-> date, lowest_view_mode |-> "Month",
               highest_view_mode |-> "Decade"]
    /\ steps = 0

\* one direction key
BoundedNext ==
    \E k \in DirectionKeys :
        on_event(KeyEvent(k))

BoundedSpec == BoundedInit /\ [][BoundedNext]_vars

-----------------------------------------------------------------------------
(* Properties *)

InRange(d) ==
    /\ IsSome(earliest_date) => DateLE(Unwrap(earliest_date), d)
    /\ IsSome(latest_date) => DateLE(d, Unwrap(latest_date))

\* clampDate of the range policy: the earliest bound for a date before it,
\* the latest bound for a date after it, the date itself otherwise
clampDate(d) ==
    IF IsSome(earliest_date) /\ DateLT(d, Unwrap(earliest_date))
    THEN Unwrap(earliest_date)
    ELSE IF IsSome(latest_date) /\ DateLT(Unwrap(latest_date), d)
    THEN Unwrap(latest_date)
    ELSE d

Gestures == DirectionKeys \cup { "Backspace", "Enter", "Mouse" }

\* the widget is as the last call found it
Untouched ==
    /\ view_mode = last.view_mode
    /\ view_date = last.view_date
    /\ date = last.date

\* a press at <<x, y>> lands on the cell drawn as the cursor's
OnCursorCell(x, y, mode, cursor) ==
    LET c == cursor_cell(mode, cursor)
    IN  y = c[2] /\ x >= c[1] /\ x < c[1] + c[3]

\* what a confirm gesture does to the widget the last call found: at the
\* lowest mode the cursor date is committed and reported, above it the
\* mode gets one step finer
Confirmed ==
    IF last.view_mode = last.lowest_view_mode
    THEN /\ date = last.view_date
         /\ view_date = last.view_date
         /\ view_mode = last.view_mode
         /\ result = IF on_submit
                     THEN Consumed("submit", Some(last.view_date))
                     ELSE Consumed("none", None)
    ELSE /\ ModeOrd(view_mode) = ModeOrd(last.view_mode) - 1
         /\ view_date = last.view_date
         /\ date = last.date
         /\ result = Consumed("none", None)

\* C1: in every reachable state the cursor date lies within
\* [earliest, latest], whenever those bounds are present.
C1_CursorInRange == InRange(view_date)

\* C2: right after set_earliest_date(Some(e)) the selected date and the
\* cursor date are both >= e, and right after set_latest_date(Some(l)) both
\* are <= l.
C2_RangeSettersReclamp ==
    /\ (last.op = "set_earliest_date" /\ IsSome(last.arg))
           => (DateLE(Unwrap(last.arg), date) /\ DateLE(Unwrap(last.arg), view_date))
    /\ (last.op = "set_latest_date" /\ IsSome(last.arg))
           => (DateLE(date, Unwrap(last.arg)) /\ DateLE(view_date, Unwrap(last.arg)))

\* C3: in every reachable state lowest_view_mode <= view_mode <=
\* highest_view_mode, and highest_view_mode is strictly greater than
\* lowest_view_mode.
C3_ModeWithinBounds ==
    /\ ModeOrd(lowest_view_mode) <= ModeOrd(view_mode)
    /\ ModeOrd(view_mode) <= ModeOrd(highest_view_mode)
    /\ ModeOrd(lowest_view_mode) < ModeOrd(highest_view_mode)

\* a drill-out gesture stopped by a highest mode that was lowered to Year
C3_Witness ==
    /\ last.op = "Backspace"
    /\ highest_view_mode = "Year"
    /\ last.view_mode = "Year"
    /\ view_mode = "Year"

\* the offsets of the directional gestures, by mode
C4_OffsetTable(gesture, mode) ==
    LET DayGrid    == [Up |-> <<-7, 0, 0>>, Down |-> <<7, 0, 0>>,
                       Left |-> <<-1, 0, 0>>, Right |-> <<1, 0, 0>>,
                       PageUp |-> <<0, -1, 0>>, PageDown |-> <<0, 1, 0>>]
        MonthGrid  == [Up |-> <<0, -4, 0>>, Down |-> <<0, 4, 0>>,
                       Left |-> <<0, -1, 0>>, Right |-> <<0, 1, 0>>,
                       PageUp |-> <<0, 0, -1>>, PageDown |-> <<0, 0, 1>>]
        DecadeGrid == [Up |-> <<0, 0, -4>>, Down |-> <<0, 0, 4>>,
                       Left |-> <<0, 0, -1>>, Right |-> <<0, 0, 1>>,
                       PageUp |-> <<0, 0, -10>>, PageDown |-> <<0, 0, 10>>]
    IN  CASE mode = "Month" -> DayGrid[gesture]
          [] mode = "Year" -> MonthGrid[gesture]
          [] mode = "Decade" -> DecadeGrid[gesture]

\* C4: on an enabled widget a directional gesture sets the cursor to
\* clampDate(shiftDate(cursor, offsets)), offsets being the table's triple
\* for the gesture and the mode; the mode and the selected date are
\* unchanged.
C4_DirectionalMove ==
    (last.op \in DirectionKeys /\ enabled) =>
        LET o == C4_OffsetTable(last.op, last.view_mode)
        IN  /\ view_date = clampDate(date_from_day_and_offsets(
                               last.view_date, None, o[1], o[2], o[3]))
            /\ view_mode = last.view_mode
            /\ date = last.date

\* PageDown in the decade grid, ten years on being past the latest bound
C4_Witness ==
    /\ last.op = "PageDown"
    /\ enabled
    /\ last.view_mode = "Decade"
    /\ IsSome(latest_date)
    /\ Year(last.view_date) + 10 > Year(Unwrap(latest_date))
    /\ view_date = Unwrap(latest_date)

\* C5: a confirm gesture received at the lowest mode commits the cursor:
\* afterwards the selected date is the cursor date, the submission event
\* (delivered to the on_submit callback, when one is set) carries that
\* date, and the mode and the cursor date are unchanged.
C5_ConfirmAtLowestCommits ==
    (last.op = "Enter" /\ enabled /\ last.view_mode = last.lowest_view_mode) =>
        /\ date = view_date
        /\ view_date = last.view_date
        /\ view_mode = last.view_mode
        /\ on_submit => (result.cb = "submit" /\ result.date = Some(date))
        /\ ~on_submit => result = Consumed("none", None)

\* a commit that changes the selected date and is reported
C5_Witness ==
    /\ last.op = "Enter"
    /\ enabled
    /\ last.view_mode = last.lowest_view_mode
    /\ last.date # last.view_date
    /\ result.cb = "submit"

\* C6: a confirm gesture received above the lowest mode moves the mode
\* exactly one step finer, fires no submission event, and leaves the cursor
\* date and the selected date unchanged.
C6_ConfirmAboveLowestDrillsIn ==
    (last.op = "Enter" /\ enabled
        /\ ModeOrd(last.view_mode) > ModeOrd(last.lowest_view_mode)) =>
        /\ ModeOrd(view_mode) = ModeOrd(last.view_mode) - 1
        /\ result = Consumed("none", None)
        /\ view_date = last.view_date
        /\ date = last.date

\* a confirm gesture in the decade grid, an on_submit callback being set
C6_Witness ==
    /\ last.op = "Enter"
    /\ enabled
    /\ on_submit
    /\ last.view_mode = "Decade"
    /\ view_mode = "Year"

\* C7: a drill-out gesture moves the mode exactly one step coarser below
\* the highest mode and is a no-op at the highest mode; the cursor date and
\* the selected date are unchanged and no event fires.
C7_DrillOut ==
    (last.op = "Backspace" /\ enabled) =>
        /\ IF ModeOrd(last.view_mode) < ModeOrd(last.highest_view_mode)
           THEN ModeOrd(view_mode) = ModeOrd(last.view_mode) + 1
           ELSE view_mode = last.view_mode
        /\ view_date = last.view_date
        /\ date = last.date
        /\ result = Consumed("none", None)

\* a drill-out gesture from the year grid to the decade grid
C7_Witness ==
    /\ last.op = "Backspace"
    /\ enabled
    /\ last.view_mode = "Year"
    /\ view_mode = "Decade"

\* C8: a disabled widget ignores every gesture (mode, cursor date and
\* selected date unchanged, no event) and refuses focus.
C8_DisabledIgnoresGestures ==
    ~enabled =>
        /\ last.op \in Gestures => (result = Ignored /\ Untouched)
        /\ last.op = "take_focus" => (result = CannotFocus /\ Untouched)

\* a confirm gesture on a disabled widget whose cursor is not committed
C8_Witness ==
    /\ ~enabled
    /\ last.op = "Enter"
    /\ view_date # date
    /\ result = Ignored

\* C9: a selection-changed event is emitted (to the on_select callback,
\* when one is set) by a directional or pointer gesture exactly when the
\* cursor date after clamping differs from the cursor date before, and it
\* carries the new cursor date; drill-in, drill-out and gestures that leave
\* the cursor where it was emit none.
C9_SelectEventIffCursorChanged ==
    /\ result.cb = "select" <=>
           /\ on_select
           /\ enabled
           /\ last.op \in DirectionKeys \cup { "Mouse" }
           /\ view_date # last.view_date
    /\ result.cb = "select" => result.date = Some(view_date)

\* a move to the right held back by the latest bound: no event, although
\* a callback is set
C9_Witness ==
    /\ on_select
    /\ enabled
    /\ last.op = "Right"
    /\ IsSome(latest_date)
    /\ last.view_date = Unwrap(latest_date)
    /\ view_date = last.view_date
    /\ result = Consumed("none", None)

\* C10, as stated: a pointer press, of any button, that lands on the cell
\* holding the cursor has the state and the events of a confirm gesture.
C10_AnyPressOnCursorConfirms ==
    (/\ last.op = "Mouse"
     /\ enabled
     /\ OnCursorCell(last.arg[1], last.arg[2], last.view_mode, last.view_date))
        => Confirmed

\* C10: in every mode a press of the left button that lands on the cell
\* holding the cursor is a confirm gesture: every position of that cell
\* leads to submit, and the press has the state and the events of Enter.
C10_LeftPressOnCursorConfirms ==
    /\ LET c == cursor_cell(view_mode, view_date)
       IN  \A x \in c[1] .. (c[1] + c[3] - 1) :
               /\ x < required_size[1]
               /\ c[2] < required_size[2]
               /\ mouse_press(x, c[2], "Left") = HitSubmit
    /\ (/\ last.op = "Mouse"
        /\ enabled
        /\ last.arg[3] = "Left"
        /\ OnCursorCell(last.arg[1], last.arg[2], last.view_mode, last.view_date))
           => Confirmed

\* a left press on the cursor's year in the decade grid
C10_Witness ==
    /\ last.op = "Mouse"
    /\ enabled
    /\ last.arg[3] = "Left"
    /\ last.view_mode = "Decade"
    /\ OnCursorCell(last.arg[1], last.arg[2], last.view_mode, last.view_date)
    /\ view_mode = "Year"

\* a press at <<x, y>> lands on one of the cells drawn in `mode` for `cursor`
OnDrawnCell(x, y, mode, cursor) ==
    \E c \in drawn_cells(mode, cursor) : y = c[2] /\ x >= c[1] /\ x < c[1] + c[3]

\* C11: a pointer press at a coordinate that is not inside a drawn cell
\* (header rows, week-number gutter, gaps between cells, any column or row
\* past the last cell, within the footprint) reports no hit: the cursor
\* date, the selected date and the mode are unchanged.
C11_PressOffCellsIsNoHit ==
    (/\ last.op = "Mouse"
     /\ enabled
     /\ ~OnDrawnCell(last.arg[1], last.arg[2], last.view_mode, last.view_date))
        => Untouched

\* the date the layout shows in a cell: in the day grid the cell's own
\* date; in the month grid the cell's month of the cursor's year, in the
\* decade grid the cell's year, the cursor's day being kept as far as the
\* month has it
C12_CellDate(mode, cursor, what) ==
    CASE mode = "Month" -> draw_month_date(cursor, what)
      [] mode = "Year" ->
            <<Year(cursor), what,
              Min(Day0(cursor), number_of_days(what, Year(cursor)) - 1)>>
      [] mode = "Decade" ->
            LET year == draw_decade_first(cursor) + what
            IN  <<year, Month0(cursor),
                  Min(Day0(cursor), number_of_days(Month0(cursor), year) - 1)>>

\* the last call was a press inside the drawn cell c
C12_PressedCell(c) ==
    /\ last.op = "Mouse"
    /\ enabled
    /\ last.arg[2] = c[2]
    /\ last.arg[1] >= c[1]
    /\ last.arg[1] < c[1] + c[3]

\* C12: for every week start and ISO-week setting, a pointer press on a
\* drawn cell other than the cursor's sets the cursor to the clamped date
\* the layout shows in that cell (day grid: that exact date, cells of the
\* previous and the next month included; month grid: that month of the
\* cursor's year; decade grid: that year); the mode and the selected date
\* are unchanged.
C12_PressOnCellMovesThere ==
    \A c \in drawn_cells(last.view_mode, last.view_date) :
        (/\ C12_PressedCell(c)
         /\ ~OnCursorCell(last.arg[1], last.arg[2], last.view_mode, last.view_date))
            => /\ view_date = clampDate(C12_CellDate(last.view_mode, last.view_date, c[4]))
               /\ view_mode = last.view_mode
               /\ date = last.date

\* a press on a day of the previous month, the week starting on Sunday and
\* the ISO weeks shown
C12_Witness ==
    /\ show_iso_weeks
    /\ week_start = 6
    /\ last.view_mode = "Month"
    /\ \E c \in drawn_cells(last.view_mode, last.view_date) :
           /\ C12_PressedCell(c)
           /\ c[4] < 0
           /\ view_date = draw_month_date(last.view_date, c[4])
           /\ Month0(view_date) # Month0(last.view_date)

\* daysInMonth of the date arithmetic: the proleptic Gregorian rule
daysInMonth(month, year) ==
    IF month = 1
    THEN IF year % 4 = 0 /\ (year % 100 # 0 \/ year % 400 = 0) THEN 29 ELSE 28
    ELSE IF month \in {3, 5, 8, 10} THEN 30 ELSE 31

\* a valid date: month in 0..11, day in 0..daysInMonth(month, year) - 1
ValidDate(d) ==
    /\ Month0(d) \in 0 .. 11
    /\ Day0(d) \in 0 .. (daysInMonth(Month0(d), Year(d)) - 1)

\* the number of the day of a valid date, counted from 0000-03-01
DayNumber(d) ==
    LET y   == IF Month0(d) < 2 THEN Year(d) - 1 ELSE Year(d)
        mp  == (Month0(d) + 10) % 12
    IN  365 * y + y \div 4 - y \div 100 + y \div 400
            + (153 * mp + 2) \div 5 + Day0(d)

\* C13: shiftDate with day offset 0 and no explicit day returns the date
\* whose year and month are (year + yearOffset, month + monthOffset)
\* normalised into months 0..11 with carry into the year, and whose day is
\* min(original day, daysInMonth(target month, target year) - 1).
C13_MonthYearShiftClampsDay ==
    (last.op = "test_offsets" /\ last.arg[1] = 0) =>
        LET total == Month0(last.view_date) + last.arg[2]
            year  == Year(last.view_date) + last.arg[3] + total \div 12
            month == total % 12
        IN  view_date = <<year, month,
                          Min(Day0(last.view_date), daysInMonth(month, year) - 1)>>

\* 2020-01-31 shifted by +1 month is 2020-02-29
C13_Witness ==
    /\ last.op = "test_offsets"
    /\ last.view_date = <<2020, 0, 30>>
    /\ last.arg = <<0, 1, 0>>
    /\ view_date = <<2020, 1, 28>>

\* C14: shiftDate with only a day offset n returns the calendar date
\* exactly n days after the input date (before it for a negative n),
\* across any number of month and year boundaries; n = 0 returns the
\* input date.
C14_DayShiftIsExact ==
    (last.op = "test_offsets" /\ last.arg[2] = 0 /\ last.arg[3] = 0) =>
        /\ ValidDate(view_date)
        /\ DayNumber(view_date) = DayNumber(last.view_date) + last.arg[1]
        /\ last.arg[1] = 0 => view_date = last.view_date

\* 400 days back from 2020-02-29, across two year boundaries
C14_Witness ==
    /\ last.op = "test_offsets"
    /\ last.view_date = <<2020, 1, 28>>
    /\ last.arg = <<-400, 0, 0>>
    /\ view_date = <<2019, 0, 24>>

\* C15: shiftDate applies the year and month offsets first, with the
\* end-of-month clamping of the day, and the day offset afterwards:
\* shiftDate(d, dd, dm, dy) = shiftDate(shiftDate(d, 0, dm, dy), dd, 0, 0).
C15_MonthsThenDays ==
    last.op = "test_offsets" =>
        view_date = date_from_day_and_offsets(
                        date_from_day_and_offsets(
                            last.view_date, None, 0, last.arg[2], last.arg[3]),
                        None, last.arg[1], 0, 0)

\* (-10 days, +1 month) from 1969-07-20 is 1969-08-10
C15_Witness ==
    /\ last.op = "test_offsets"
    /\ last.view_date = <<1969, 6, 19>>
    /\ last.arg = <<-10, 1, 0>>
    /\ view_date = <<1969, 7, 9>>

\* the gesture that undoes a directional gesture
C16_Inverse(gesture) ==
    CASE gesture = "Up" -> "Down"
      [] gesture = "Down" -> "Up"
      [] gesture = "Left" -> "Right"
      [] gesture = "Right" -> "Left"
      [] gesture = "PageUp" -> "PageDown"
      [] gesture = "PageDown" -> "PageUp"

\* the date the last call started from is back after the offsets of
\* `gesture` in `mode`
C16_BackAfter(gesture, mode) ==
    LET o == C4_OffsetTable(gesture, mode)
    IN  date_from_day_and_offsets(view_date, None, o[1], o[2], o[3]) = last.view_date

\* C16, as stated: for every valid date d and every (mode, gesture) pair
\* of the offset table, shiftDate with the gesture's offsets and then with
\* the inverse gesture's offsets returns d.
C16_RoundTrip ==
    \A mode \in ViewModes, gesture \in DirectionKeys :
        (last.op = "test_offsets" /\ last.arg = C4_OffsetTable(gesture, mode))
            => C16_BackAfter(C16_Inverse(gesture), mode)

\* C16: for every valid date d and every (mode, gesture) pair of the
\* offset table, shiftDate with the gesture's offsets and then with the
\* inverse gesture's offsets returns d, whenever the month the first shift
\* arrives at has the day of d (no end-of-month clamping of the day); the
\* gestures that shift by days always return.
C16_RoundTripUnlessDayClamped ==
    \A mode \in ViewModes, gesture \in DirectionKeys :
        (/\ last.op = "test_offsets"
         /\ last.arg = C4_OffsetTable(gesture, mode)
         /\ \/ last.arg[2] = 0 /\ last.arg[3] = 0
            \/ Day0(view_date) = Day0(last.view_date))
            => C16_BackAfter(C16_Inverse(gesture), mode)

\* a month forward from 2019-12-31, over the end of the year, and back
C16_Witness ==
    /\ last.op = "test_offsets"
    /\ last.view_date = <<2019, 11, 30>>
    /\ last.arg = C4_OffsetTable("PageDown", "Month")
    /\ view_date = <<2020, 0, 30>>
    /\ C16_BackAfter("PageUp", "Month")

\* how many days the day index of a call of date_from_day_and_offsets,
\* given as <<year, month, day, number>>, lies outside its month
C17_Remaining(call) ==
    IF call[3] < 0 THEN 0 - call[3]
    ELSE IF call[3] >= call[4] THEN call[3] - call[4] + 1
    ELSE 0

\* C17: shiftDate is total: for every valid date and every day, month and
\* year offset the recursive day carry terminates, each recursive call
\* being left with strictly fewer days to carry than the call before it
\* and the last one with none, and the result is a valid date (month in
\* 0..11, day in 0..daysInMonth(month, year) - 1).
C17_CarryTerminatesInValidDate ==
    last.op = "test_offsets" =>
        LET calls == date_from_calls(last.view_date, None,
                                     last.arg[1], last.arg[2], last.arg[3])
            final == calls[Len(calls)]
        IN  /\ \A k \in 1 .. (Len(calls) - 1) :
                   C17_Remaining(calls[k + 1]) < C17_Remaining(calls[k])
            /\ C17_Remaining(final) = 0
            /\ view_date = <<final[1], final[2], final[3]>>
            /\ ValidDate(view_date)

\* 400 days on from 2019-12-31: more than twelve recursive calls
C17_Witness ==
    /\ last.op = "test_offsets"
    /\ last.view_date = <<2019, 11, 30>>
    /\ last.arg = <<400, 0, 0>>
    /\ Len(date_from_calls(last.view_date, None, 400, 0, 0)) > 12
    /\ ValidDate(view_date)

\* C18: daysInMonth(month, year) is 29 for February exactly when the year
\* is divisible by 4 and (not divisible by 100 or divisible by 400), 28 for
\* February otherwise, 30 for April, June, September and November and 31
\* for every other month, for every year, the negative ones included.
C18_NumberOfDays ==
    \A month \in 0 .. 11 :
        /\ number_of_days(month, Year(view_date))
               = daysInMonth(month, Year(view_date))
        /\ number_of_days(month, Year(view_date) - 1)
               = daysInMonth(month, Year(view_date) - 1)

\* a shift that arrives at the 29th of February of a year before year 0
C18_Witness ==
    /\ last.op = "test_offsets"
    /\ Year(view_date) < 0
    /\ Month0(view_date) = 1
    /\ Day0(view_date) = 28

\* C19: set_selected_date(d) and set_view_date(d) store clampDate(d, range):
\* the earliest bound if d < earliest, the latest bound if d > latest, and
\* d itself when it lies within the bounds that are present.
C19_SettersStoreClamped ==
    /\ last.op = "set_selected_date" =>
           /\ date = clampDate(last.arg)
           /\ view_date = last.view_date
    /\ last.op = "set_view_date" =>
           /\ view_date = clampDate(last.arg)
           /\ date = last.date

\* a selected date past the latest bound is stored as the latest bound
C19_Witness ==
    /\ last.op = "set_selected_date"
    /\ IsSome(latest_date)
    /\ DateLT(Unwrap(latest_date), last.arg)
    /\ date = Unwrap(latest_date)

\* a confirm gesture was just received in the month grid by an enabled
\* widget whose lowest mode is the month grid (ViewMode::Year) and whose
\* highest mode is the decade grid, and a drill-out gesture follows it
C20_DrillOutAfterConfirm ==
    /\ enabled
    /\ lowest_view_mode = "Year"
    /\ highest_view_mode = "Decade"
    /\ last.op = "Enter"
    /\ last.view_mode = "Year"
    /\ last'.op = "Backspace"

\* the confirm gesture has committed the cursor date, its day included
C20_Committed ==
    /\ date = last.view_date
    /\ view_date = last.view_date
    /\ view_mode = "Year"

C21_Retained ==
    /\ lowest_view_mode = last.lowest_view_mode
    /\ highest_view_mode = last.highest_view_mode
    /\ Untouched

\* C21: an invalid mode configuration call is silently rejected:
\* set_lowest_view_mode(m) with m >= highest, set_highest_view_mode(m) with
\* m <= lowest, and set_view_mode(m) with m outside [lowest, highest]
\* change neither the bounds, the current mode, nor any date.
C21_InvalidModeCallRejected ==
    /\ (/\ last.op = "set_lowest_view_mode"
        /\ ModeOrd(last.arg) >= ModeOrd(last.highest_view_mode)) => C21_Retained
    /\ (/\ last.op = "set_highest_view_mode"
        /\ ModeOrd(last.arg) <= ModeOrd(last.lowest_view_mode)) => C21_Retained
    /\ (/\ last.op = "set_view_mode"
        /\ \/ ModeOrd(last.arg) < ModeOrd(last.lowest_view_mode)
           \/ ModeOrd(last.arg) > ModeOrd(last.highest_view_mode)) => C21_Retained

\* set_highest_view_mode(Month) on a widget whose lowest mode is Month and
\* that shows the year grid
C21_Witness ==
    /\ last.op = "set_highest_view_mode"
    /\ last.arg = "Month"
    /\ last.lowest_view_mode = "Month"
    /\ last.view_mode = "Year"
    /\ view_mode = "Year"
    /\ highest_view_mode = "Decade"

\* C22: a freshly constructed widget has cursor date = selected date = the
\* date it was given, is enabled, has no range bounds, and shows the finest
\* mode: mode = lowest bound = DayGrid, highest bound = DecadeGrid.
C22_FreshWidget ==
    last.op = "new" =>
        /\ view_date = Unwrap(last.arg)
        /\ date = Unwrap(last.arg)
        /\ enabled
        /\ earliest_date = None
        /\ latest_date = None
        /\ view_mode = "Month"
        /\ lowest_view_mode = "Month"
        /\ highest_view_mode = "Decade"

\* the widget constructed on 2024-12-02, no call made yet
C22_Witness ==
    /\ last.op = "new"
    /\ steps = 0
    /\ last.arg = Some(<<2024, 11, 1>>)
    /\ date = <<2024, 11, 1>>

\* the highlight category of the day-grid cell of day i, by the precedence
\* unavailable > cursor > selected > neighbour month > normal
C23_Category(i) ==
    LET d == draw_month_date(view_date, i)
    IN  IF ~InRange(d) THEN "unavailable"
        ELSE IF d = view_date THEN "cursor"
        ELSE IF d = date THEN "selected"
        ELSE IF Month0(d) # Month0(view_date) THEN "neighbour"
        ELSE "normal"

\* the ColorStyle of a category on an enabled, focused widget, where every
\* category has a style of its own
C23_FocusedStyle(category) ==
    CASE category = "unavailable" -> "tertiary"
      [] category = "cursor" -> "highlight"
      [] category = "selected" -> "highlight_inactive"
      [] category = "neighbour" -> "secondary"
      [] category = "normal" -> "primary"

\* C23: in the day grid each cell's highlight category follows the
\* precedence unavailable > cursor cell > selected cell > neighbour-month
\* dimming > normal: a cell whose date is outside the range is unavailable;
\* otherwise the cell of the cursor date is the cursor's; otherwise a cell
\* of the selected date is the selected one, also when it lies among the
\* cells of the previous or the next month; otherwise the cells of the
\* previous and the next month are neighbour-month; all others are normal.
\* (Stated for an enabled, focused widget.)
C23_HighlightPrecedence ==
    enabled =>
        \A i \in draw_month_days(view_date) :
            draw_month_color(i, TRUE) = C23_FocusedStyle(C23_Category(i))

\* the ordinal of the weekday of a valid date, Monday = 0 (1970-01-01 was a
\* Thursday)
WeekdayOrdinal(d) == (DayNumber(d) - DayNumber(<<1970, 0, 0>>) + 3) % 7

\* C24: the day grid consists of exactly 42 cells (6 rows x 7 columns) of
\* 42 consecutive dates, starting (firstWeekdayOrdinal + (Monday -
\* weekStart + 7) % 7) % 7 cells before the 1st of the cursor's month;
\* cells before the 1st show day daysInPreviousMonth + index of the
\* previous month, cells past the end of the month show day index -
\* daysInMonth of the next month, across year boundaries too. (The grid is
\* the one drawn in ViewMode::Month.)
C24_DayGridLayout ==
    view_mode = "Month" =>
        LET cells    == drawn_cells("Month", view_date)
            first    == <<Year(view_date), Month0(view_date), 0>>
            offset   == (WeekdayOrdinal(first) + ((0 - week_start + 7) % 7)) % 7
            h_offset == IF show_iso_weeks THEN 3 ELSE 0
            days     == daysInMonth(Month0(view_date), Year(view_date))
            before   == IF Month0(view_date) = 0
                        THEN <<Year(view_date) - 1, 11>>
                        ELSE <<Year(view_date), Month0(view_date) - 1>>
            after    == IF Month0(view_date) = 11
                        THEN <<Year(view_date) + 1, 0>>
                        ELSE <<Year(view_date), Month0(view_date) + 1>>
        IN  /\ Cardinality(cells) = 42
            /\ { <<c[1], c[2]>> : c \in cells }
                   = { <<h_offset + 3 * col, 2 + row>> : col \in 0 .. 6, row \in 0 .. 5 }
            /\ \A c \in cells :
                   LET index == c[4]
                       d     == draw_month_date(view_date, index)
                   IN  /\ index = (c[2] - 2) * 7 + (c[1] - h_offset) \div 3 - offset
                       /\ ValidDate(d)
                       /\ DayNumber(d) = DayNumber(first) + index
                       /\ index < 0 =>
                              d = <<before[1], before[2],
                                    daysInMonth(before[2], before[1]) + index>>
                       /\ index >= days =>
                              d = <<after[1], after[2], index - days>>

\* the grid of a December, the week starting on Sunday: its last cells
\* show days of the January of the next year
C24_Witness ==
    /\ last.op = "Mouse"
    /\ view_mode = "Month"
    /\ week_start = 6
    /\ Month0(view_date) = 11
    /\ \E c \in drawn_cells("Month", view_date) :
           /\ c[2] = 7
           /\ draw_month_date(view_date, c[4]) = <<Year(view_date) + 1, 0, c[4] - 31>>

\* C25: the decade grid consists of exactly 12 cells: the 10 years decade
\* .. decade + 9, decade = viewYear - (viewYear % 10), plus exactly one
\* neighbour cell before (index -1) and one after (index 10), and the
\* cursor's year is one of the 10 primary cells.
C25_DecadeGridLayout ==
    view_mode = "Decade" =>
        LET cells  == drawn_cells("Decade", view_date)
            decade == Year(view_date) - (Year(view_date) % 10)
        IN  /\ Cardinality(cells) = 12
            /\ { draw_decade_first(view_date) + c[4] : c \in cells }
                   = (decade - 1) .. (decade + 10)
            /\ Year(view_date) \in decade .. (decade + 9)

\* the last call was an arrow gesture on an enabled widget, and the date
\* one row or one cell away lies within the range, so that no clamping
\* occurs
C26_UnclampedArrow ==
    /\ last.op \in { "Up", "Down", "Left", "Right" }
    /\ enabled
    /\ LET o == C4_OffsetTable(last.op, last.view_mode)
       IN  InRange(date_from_day_and_offsets(
                       last.view_date, None, o[1], o[2], o[3]))

\* how many cells of the grid of `mode` the cursor has advanced: days in
\* the day grid, months in the month grid, years in the decade grid
C26_CellsAdvanced(mode) ==
    CASE mode = "Month" -> DayNumber(view_date) - DayNumber(last.view_date)
      [] mode = "Year" -> (12 * Year(view_date) + Month0(view_date))
                              - (12 * Year(last.view_date) + Month0(last.view_date))
      [] mode = "Decade" -> Year(view_date) - Year(last.view_date)

\* the cells an arrow gesture is to advance: a row has 7 cells in the day
\* grid and 4 cells in the other grids
C26_CellsOf(gesture, mode) ==
    LET row == IF mode = "Month" THEN 7 ELSE 4
    IN  CASE gesture = "Up" -> 0 - row
          [] gesture = "Down" -> row
          [] gesture = "Left" -> -1
          [] gesture = "Right" -> 1

\* the cursor is drawn in the column it was drawn in before the last call
C26_SameColumn ==
    cursor_cell(view_mode, view_date)[1]
        = cursor_cell(last.view_mode, last.view_date)[1]

\* C26, as stated: in every mode, when no range clamping occurs, an Up or
\* Down gesture moves the cursor by exactly one row of the grid and keeps
\* it in the same grid column, and a Left or Right gesture moves it by
\* exactly one cell.
C26_ArrowsMoveByRowAndCell ==
    C26_UnclampedArrow =>
        /\ C26_CellsAdvanced(last.view_mode) = C26_CellsOf(last.op, last.view_mode)
        /\ last.op \in { "Up", "Down" } => C26_SameColumn

\* C26: in every mode, when no range clamping occurs, an Up or Down
\* gesture moves the cursor by exactly one row's worth of cells (7 days, 4
\* months, 4 years) and a Left or Right gesture by exactly one cell; Up
\* and Down keep the cursor in the same grid column in the day grid and
\* the month grid, and in the decade grid as long as the cursor stays in
\* the same decade.
C26_ArrowsKeepColumnWithinDecade ==
    C26_UnclampedArrow =>
        /\ C26_CellsAdvanced(last.view_mode) = C26_CellsOf(last.op, last.view_mode)
        /\ (/\ last.op \in { "Up", "Down" }
            /\ \/ last.view_mode # "Decade"
               \/ Year(view_date) \div 10 = Year(last.view_date) \div 10)
               => C26_SameColumn

\* Down in the decade grid from a year whose decade has the year four on
C26_Witness ==
    /\ C26_UnclampedArrow
    /\ last.op = "Down"
    /\ last.view_mode = "Decade"
    /\ Year(view_date) = Year(last.view_date) + 4
    /\ Year(view_date) \div 10 = Year(last.view_date) \div 10
    /\ C26_SameColumn

\* C27: in every reachable state (every range update keeping earliest <=
\* latest) the selected date lies within [earliest, latest] whenever those
\* bounds are present, and a date delivered to the submit handler is
\* within the range.
C27_SelectedInRange ==
    /\ InRange(date)
    /\ result.cb = "submit" => InRange(Unwrap(result.date))

\* the state after the confirm gestures made so far, the view mode having
\* been m before the first of them
C28_AfterConfirms(m) ==
    LET n == ModeOrd(m) - ModeOrd(lowest_view_mode)
    IN  /\ n + 1 <= 3
        /\ (1 <= steps /\ steps <= n) =>
               /\ ModeOrd(view_mode) = ModeOrd(m) - steps
               /\ result = Consumed("none", None)
               /\ date = last.date
               /\ view_date = last.view_date
        /\ steps = n =>
               /\ view_mode = lowest_view_mode
               /\ date # view_date
        /\ steps = n + 1 =>
               /\ view_mode = lowest_view_mode
               /\ last.view_mode = lowest_view_mode
               /\ view_date = last.view_date
               /\ date = view_date
               /\ on_submit => result = Consumed("submit", Some(view_date))

\* C28: from any view mode m of an enabled widget, exactly (m - lowest)
\* consecutive confirm gestures bring the widget to the lowest view mode,
\* one level per gesture, without running the submit handler and without
\* changing the cursor or the selected date; the next confirm gesture
\* commits the cursor date as the selected date and hands it to the submit
\* handler; a commit is never more than three confirm gestures away.
C28_ConfirmsReachCommit ==
    \A m \in ViewModes :
        (steps = 0 /\ view_mode = m) => [] C28_AfterConfirms(m)

\* the third Enter, in the day grid, of a widget that started in the
\* decade grid: the cursor date is committed and submitted
C28_Witness ==
    /\ steps = 3
    /\ last.op = "Enter"
    /\ last.view_mode = "Month"
    /\ last.date # last.view_date
    /\ date = view_date
    /\ result = Consumed("submit", Some(view_date))

\* earliest <= latest, where both bounds are given
C29_RangeOrdered ==
    (IsSome(earliest_date) /\ IsSome(latest_date)) =>
        DateLE(Unwrap(earliest_date), Unwrap(latest_date))

\* some date of the month lies within [earliest, latest]
C29_SomeDateOfMonth(month, year) ==
    \E day \in 0 .. (daysInMonth(month, year) - 1) :
        InRange(<<year, month, day>>)

\* C29: with earliest <= latest, a month cell of the month grid is marked
\* available if and only if at least one date of that month lies within
\* [earliest, latest]; likewise a year of the decade grid is available if
\* and only if some date of that year lies within the range.
C29_AvailableIffSomeDate ==
    C29_RangeOrdered =>
        /\ view_mode = "Year" =>
               \A i \in draw_year_months :
                   month_available(i, Year(view_date))
                       <=> C29_SomeDateOfMonth(i, Year(view_date))
        /\ view_mode = "Decade" =>
               \A o \in draw_decade_years :
                   LET year == draw_decade_first(view_date) + o
                   IN  year_available(year)
                           <=> \E month \in 0 .. 11 :
                                   C29_SomeDateOfMonth(month, year)

\* a month grid reached by a direction key, under a range with both
\* bounds, showing available and unavailable months, the month of the
\* earliest date among them
C29_Witness ==
    /\ steps >= 1
    /\ view_mode = "Year"
    /\ IsSome(earliest_date)
    /\ IsSome(latest_date)
    /\ Year(Unwrap(earliest_date)) = Year(view_date)
    /\ month_available(Month0(Unwrap(earliest_date)), Year(view_date))
    /\ \E i \in draw_year_months : ~month_available(i, Year(view_date))

\* C30: in the day grid, for every week start and every cursor month, the
\* weekday of the date shown in a cell of column c equals the weekday
\* printed in the header of that column, (c + weekStart) mod 7 with
\* Monday = 0; the week start only rotates the display: the date a
\* directional gesture reaches is clampDate(shiftDate(cursor, offsets)),
\* whatever the week start.
C30_HeaderMatchesColumn ==
    /\ view_mode = "Month" =>
           \A cell \in drawn_cells("Month", view_date) :
               \E c \in 0 .. 6 :
                   /\ draw_month_header(c)[1] = cell[1]
                   /\ draw_month_header(c)[3] = (c + week_start) % 7
                   /\ draw_month_header(c)[3]
                          = WeekdayOrdinal(draw_month_date(view_date, cell[4]))
    /\ last.op \in DirectionKeys =>
           LET o == C4_OffsetTable(last.op, last.view_mode)
           IN  view_date = clampDate(date_from_day_and_offsets(
                               last.view_date, None, o[1], o[2], o[3]))

\* a day grid whose week starts on Sunday, reached by a direction key, its
\* first column headed Sunday and holding a Sunday
C30_Witness ==
    /\ view_mode = "Month"
    /\ week_start = 6
    /\ last.op \in DirectionKeys
    /\ view_date # last.view_date
    /\ draw_month_header(0)[3] = 6
    /\ \E cell \in drawn_cells("Month", view_date) :
           /\ cell[1] = draw_month_header(0)[1]
           /\ WeekdayOrdinal(draw_month_date(view_date, cell[4])) = 6

====
